---- MODULE Spec2Model ----
(***************************************************************************)
(* Scan verification view (ScanPreviewModal) of QR Code Studio.            *)
(*                                                                         *)
(* The component is a React function component.  Its state is the pair of  *)
(* useState cells (status, scannedData), the refs (videoRef,               *)
(* animationFrameId), the props handed down by App (isOpen, expectedData)  *)
(* and what it has handed to the browser: getUserMedia requests in flight, *)
(* camera streams with live tracks and requestAnimationFrame callbacks.    *)
(* setStatus and setScannedData queue an update; React applies the queue   *)
(* in the next render (Render), or in the render a change of the props     *)
(* causes (Open, Close, ChangeExpected).                                   *)
(*                                                                         *)
(* tick is useCallback(..., [expectedData, status]): a tick function is    *)
(* identified by the expectedData and status it closed over.  The effect   *)
(* has deps [isOpen, tick]: it is re-run by React whenever isOpen,         *)
(* expectedData or status differ from the previous render.                 *)
(***************************************************************************)
EXTENDS Integers, Sequences, FiniteSets, Bags, TLC

\* ---------------------------------------------------------------- bounds
MaxFrames == 2
MaxStreams == 2
MaxRequests == 2
MaxTypedMilli == 15
MaxClock == 2

\* ---------------------------------------------------------------- inputs
\* Strings are sequences of characters; " " is the only whitespace used.
\* textData typed into the Text tab: empty, plain, with leading whitespace
TextValues == { <<>>, <<"a">>, <<" ", "a">> }

\* the content effect: data: newData || ' '
ContentData(newData) == IF newData = <<>> THEN <<" ">> ELSE newData

\* currentConfig.data as the content effect produces it, passed to the view
\* as expectedData
ExpectedValues == { ContentData(t) : t \in TextValues }

\* code.data of a jsQR result
Payloads == { <<"a">>, <<" ", "a">>, <<" ">> }

\* code.location of a jsQR result: the four corners of the code in the frame
Locations ==
    { [topLeftCorner |-> [x |-> 10, y |-> 12],
       topRightCorner |-> [x |-> 50, y |-> 8],
       bottomRightCorner |-> [x |-> 54, y |-> 48],
       bottomLeftCorner |-> [x |-> 6, y |-> 44]] }

\* video.videoWidth, video.videoHeight of the camera stream
VideoSize == [width |-> 100, height |-> 80]

StatusValues == {"idle", "scanning", "success", "error", "no_permission"}

VARIABLES
    isOpen,           \* prop isOpen (App state isScanModalOpen)
    expectedData,     \* prop expectedData (App state currentConfig.data)
    mounted,          \* the component instance exists
    stale,            \* history: the last render opened the view and shows
                      \* a status left by the previous session (the reset
                      \* of the open branch is not yet rendered)
    status,           \* useState status, committed value
    scannedData,      \* useState scannedData, committed value
    statusQ,          \* pending setStatus update (<<>> or <<v>>)
    scannedQ,         \* pending setScannedData update (<<>> or <<v>>)
    videoMounted,     \* videoRef.current / canvasRef.current are attached
    srcObject,        \* videoRef.current.srcObject: "null", or the state of
                      \* the attached stream ("live" or "ended")
    leaked,           \* number of live streams no video element refers to
    animationFrameId, \* animationFrameId.current: a frame handle
    rafQueue,         \* callbacks handed to requestAnimationFrame and not yet
                      \* run (bag of tick functions)
    requests,         \* getUserMedia promises not yet settled (bag of the
                      \* tick each .then callback closed over)
    lastFrame         \* what the step just taken did, if it processed a frame

VARIABLES
    fgColor,          \* currentConfig.fgColor
    bgColor,          \* currentConfig.bgColor
    scanDistanceFt,   \* useState scanDistanceFt, in hundredths of a foot
    printSizeIn,      \* useState printSizeIn, in hundredths of an inch
    readiness         \* the value of the readiness memo in the last render

VARIABLES
    currentConfig,       \* useState currentConfig, but for its colours
    savedQRCodes,        \* useLocalStorage('qr-codes-library', [])
    activeContentType,   \* useState activeContentType
    autoErrorCorrection, \* useState autoErrorCorrection
    baseUrl,             \* useState baseUrl
    autoUtmEnabled,      \* useState autoUtmEnabled
    utmParams,           \* useState utmParams
    textData             \* useState textData

\* the state of the scan verification view
scanVars == <<isOpen, expectedData, mounted, stale,
              status, scannedData, statusQ, scannedQ, videoMounted, srcObject,
              leaked, animationFrameId, rafQueue, requests, lastFrame>>

\* the state of App the readiness memo depends on, and the memo
appVars == <<fgColor, bgColor, scanDistanceFt, printSizeIn, readiness>>

\* the state of App behind the content form and the library
libVars == <<currentConfig, savedQRCodes, activeContentType,
             autoErrorCorrection, baseUrl, autoUtmEnabled, utmParams,
             textData>>

\* the state of App, which no step of the scan verification view changes
hostVars == <<appVars, libVars>>

vars == <<scanVars, appVars, libVars>>

\* ------------------------------------------------------------ pure parts
RECURSIVE TrimStart(_)
TrimStart(s) ==
    IF s = <<>> THEN <<>>
    ELSE IF Head(s) = " " THEN TrimStart(Tail(s)) ELSE s

RECURSIVE TrimEnd(_)
TrimEnd(s) ==
    IF s = <<>> THEN <<>>
    ELSE IF s[Len(s)] = " " THEN TrimEnd(SubSeq(s, 1, Len(s) - 1)) ELSE s

\* String.prototype.trim
Trim(s) == TrimEnd(TrimStart(s))

\* a comparison that forgets to trim the expected data
IsMatchUntrimmed(data, expected) == data = expected

\* const isMatch = code.data === expectedData.trim();
IsMatch(data, expected) == data = Trim(expected)

\* the status a frame with a detected code asks for
DetectedStatus(data, expected) ==
    IF IsMatch(data, expected) THEN "success" ELSE "error"

\* the setStatus call of a frame without a detected code:
\* if (status !== 'scanning') setStatus('scanning');
NoCodeUpdate(closureScanning, q) ==
    IF ~closureScanning THEN <<"scanning">> ELSE q

\* The function value useCallback returns for given deps.  Its body reads the
\* captured expectedData, and the captured status only in
\* (status !== 'scanning').
TickOf(exp, st) == [exp |-> exp, scanning |-> (st = "scanning")]

\* no code.location
NoLocation == [none |-> TRUE]

\* lastFrame of a step that processed no frame and drew nothing
NoFrame ==
    [decode |-> "none", completed |-> TRUE, exp |-> <<>>,
     location |-> NoLocation, overlay |-> <<>>]

\* ctx.clearRect(0, 0, overlayCanvas.width, overlayCanvas.height)
ClearRect == [op |-> "clearRect", width |-> VideoSize.width,
              height |-> VideoSize.height]

\* lastFrame of a step of the effect that cleared the overlay
ClearedOverlay == [NoFrame EXCEPT !.overlay = <<ClearRect>>]

\* an overlay tinted green whatever the comparison says
DrawDetectedAlwaysGreen(isMatch, location) ==
    << [op |-> "path",
        corners |-> <<location.topLeftCorner, location.topRightCorner,
                      location.bottomRightCorner, location.bottomLeftCorner>>,
        strokeStyle |-> "#34d399", lineWidth |-> 4,
        fillStyle |-> "rgba(52, 211, 153, 0.12)"],
       [op |-> "arc",
        centerX |-> [num |-> location.topLeftCorner.x + location.topRightCorner.x
                             + location.bottomLeftCorner.x
                             + location.bottomRightCorner.x, den |-> 4],
        centerY |-> [num |-> location.topLeftCorner.y + location.topRightCorner.y
                             + location.bottomLeftCorner.y
                             + location.bottomRightCorner.y, den |-> 4],
        radius |-> 6,
        fillStyle |-> "#34d399"] >>

\* the drawing of tick for a detected code: the closed path through the
\* four corners, stroked and filled, and the dot at their mean
DrawDetected(isMatch, location) ==
    << [op |-> "path",
        corners |-> <<location.topLeftCorner, location.topRightCorner,
                      location.bottomRightCorner, location.bottomLeftCorner>>,
        strokeStyle |-> IF isMatch THEN "#34d399" ELSE "#facc15",
        lineWidth |-> 4,
        fillStyle |-> IF isMatch THEN "rgba(52, 211, 153, 0.12)"
                      ELSE "rgba(250, 204, 21, 0.12)"],
       [op |-> "arc",
        centerX |-> [num |-> location.topLeftCorner.x + location.topRightCorner.x
                             + location.bottomLeftCorner.x
                             + location.bottomRightCorner.x, den |-> 4],
        centerY |-> [num |-> location.topLeftCorner.y + location.topRightCorner.y
                             + location.bottomLeftCorner.y
                             + location.bottomRightCorner.y, den |-> 4],
        radius |-> 6,
        fillStyle |-> IF isMatch THEN "#34d399" ELSE "#facc15"] >>

\* the drawing of tick when no code is detected: the dashed guide
DrawGuide ==
    LET insetX == (VideoSize.width * 15) \div 100
        insetY == (VideoSize.height * 15) \div 100
    IN << [op |-> "strokeRect", x |-> insetX, y |-> insetY,
           width |-> VideoSize.width - insetX * 2,
           height |-> VideoSize.height - insetY * 2,
           strokeStyle |-> "rgba(148, 163, 184, 0.6)", lineWidth |-> 2,
           lineDash |-> <<8, 12>>] >>

\* A handle returned by requestAnimationFrame is told apart only by what it
\* refers to: nothing yet (undefined), a callback that already ran or was
\* cancelled (stale), or a pending callback running tick t.
NoTick == [exp |-> <<>>, scanning |-> FALSE]
NoHandle == [set |-> FALSE, pending |-> FALSE, tick |-> NoTick]
StaleHandle == [set |-> TRUE, pending |-> FALSE, tick |-> NoTick]
HandleOf(t) == [set |-> TRUE, pending |-> TRUE, tick |-> t]

\* requestAnimationFrame(t)
Schedule(queue, t) == queue (+) SetToBag({t})

\* if (animationFrameId.current) cancelAnimationFrame(animationFrameId.current):
\* cancelling a stale handle does nothing
Cancel(queue, h) ==
    IF h.set /\ h.pending THEN queue (-) SetToBag({h.tick}) ELSE queue

\* the handle after the callback it refers to was cancelled or has run
Expire(h) == IF h.pending THEN StaleHandle ELSE h

\* a stop that does not look whether a stream was ever attached
StopTracksUnguarded(attached, src) ==
    IF attached THEN "ended" ELSE src

\* if (videoRef.current && videoRef.current.srcObject)
\*     stream.getTracks().forEach(track => track.stop())
StopTracks(attached, src) ==
    IF attached /\ src = "live" THEN "ended" ELSE src

\* the streams that have a live track
LiveStreams == leaked + (IF srcObject = "live" THEN 1 ELSE 0)

\* ------------------------------------------------- scan readiness (App)
\* Numbers are fixed-point: lengths (feet, inches) count hundredths, a value
\* typed into a number field counts thousandths, a linearised colour channel
\* counts 1e-5 and a luminance 1e-6.  A ratio is the pair of its numerator
\* and denominator.  toFixed(2) rounds to the nearest hundredth, and of two
\* equally near ones takes the larger.

\* Colour strings are sequences of characters.
Transparent == <<"t", "r", "a", "n", "s", "p", "a", "r", "e", "n", "t">>
DEFAULT_TRANSPARENT_BG == <<"#", "0", "f", "1", "7", "2", "a">>
DefaultFg == <<"#", "F", "F", "F", "F", "F", "F">>
Black == <<"#", "0", "0", "0", "0", "0", "0">>
White == <<"#", "f", "f", "f", "f", "f", "f">>

\* <input type="color"> reports a lower-case #rrggbb value
PickerColors ==
    { Black, White, <<"#", "8", "0", "8", "0", "8", "0">>,
      <<"#", "c", "c", "c", "c", "c", "c">> }

\* TEMPLATES: the fgColor / bgColor of each template
Templates ==
    { [fgColor |-> Black, bgColor |-> <<"#", "F", "F", "F", "F", "F", "F">>],
      [fgColor |-> <<"#", "1", "1", "1", "8", "2", "7">>, bgColor |-> Transparent],
      [fgColor |-> <<"#", "6", "3", "6", "6", "f", "1">>, bgColor |-> <<"#", "e", "0", "e", "7", "f", "f">>] }

\* colours of the saved codes in the library: the library is read back from
\* localStorage unvalidated, so besides what the studio saved it can hold a
\* 3-digit code or a string that is no colour
SavedCodes ==
    { [fgColor |-> <<"#", "0", "0", "0">>, bgColor |-> <<"#", "f", "f", "f">>],
      [fgColor |-> <<"#", "1", "2", "3", "4", "5">>, bgColor |-> White],
      [fgColor |-> <<"#", "g", "g", "g">>, bgColor |-> <<"#", "0", "f", "1", "7", "2", "a">>],
      [fgColor |-> White, bgColor |-> Black] }

HexDigits == <<"0", "1", "2", "3", "4", "5", "6", "7", "8", "9",
               "a", "b", "c", "d", "e", "f">>
UpperHexDigits == <<"A", "B", "C", "D", "E", "F">>

\* [0-9a-fA-F]
IsHexDigit(ch) ==
    \/ \E i \in 1..16 : HexDigits[i] = ch
    \/ \E i \in 1..6 : UpperHexDigits[i] = ch

\* parseInt(ch, 16) of one hex digit
HexDigitValue(ch) ==
    IF \E i \in 1..16 : HexDigits[i] = ch
    THEN (CHOOSE i \in 1..16 : HexDigits[i] = ch) - 1
    ELSE (CHOOSE i \in 1..6 : UpperHexDigits[i] = ch) + 9

\* parseInt(value.slice(i, i + 2), 16), i counted from 1 here
ParseByte(value, i) == 16 * HexDigitValue(value[i]) + HexDigitValue(value[i + 1])

clampHex(hex) ==
    IF Len(hex) = 4 /\ hex[1] = "#"
    THEN <<"#", hex[2], hex[2], hex[3], hex[3], hex[4], hex[4]>>
    ELSE hex

\* the null that hexToRgb returns for a string the pattern does not match
NullRGB == [r |-> -1, g |-> -1, b |-> -1]

hexToRgb(hex) ==
    LET normalized == clampHex(hex)
    IN IF /\ Len(normalized) = 7
          /\ normalized[1] = "#"
          /\ \A i \in 2..7 : IsHexDigit(normalized[i])
       THEN LET value == SubSeq(normalized, 2, 7)
            IN [r |-> ParseByte(value, 1),
                g |-> ParseByte(value, 3),
                b |-> ParseByte(value, 5)]
       ELSE NullRGB

\* channelToLinear(channel) for channel = 0..255, in units of 1e-5:
\* srgb / 12.92 up to channel 10 (srgb <= 0.03928), then
\* ((srgb + 0.055) / 1.055) ^ 2.4, with srgb = channel / 255
LinearTable == <<
    0, 30, 61, 91, 121, 152, 182, 212, 243, 273, 304, 335,
    368, 402, 439, 478, 518, 561, 605, 651, 700, 750, 802, 857,
    913, 972, 1033, 1096, 1161, 1229, 1298, 1370, 1444, 1521, 1600, 1681,
    1764, 1850, 1938, 2029, 2122, 2217, 2315, 2416, 2519, 2624, 2732, 2843,
    2956, 3071, 3190, 3310, 3434, 3560, 3689, 3820, 3955, 4092, 4231, 4374,
    4519, 4667, 4817, 4971, 5127, 5286, 5448, 5613, 5781, 5951, 6125, 6301,
    6480, 6663, 6848, 7036, 7227, 7421, 7619, 7819, 8022, 8228, 8438, 8650,
    8866, 9084, 9306, 9531, 9759, 9990, 10224, 10462, 10702, 10946, 11193, 11444,
    11697, 11954, 12214, 12477, 12744, 13014, 13287, 13563, 13843, 14126, 14413, 14703,
    14996, 15293, 15593, 15896, 16203, 16513, 16827, 17144, 17465, 17789, 18116, 18447,
    18782, 19120, 19462, 19807, 20156, 20508, 20864, 21223, 21586, 21953, 22323, 22697,
    23074, 23455, 23840, 24228, 24620, 25016, 25415, 25818, 26225, 26636, 27050, 27468,
    27889, 28315, 28744, 29177, 29614, 30054, 30499, 30947, 31399, 31855, 32314, 32778,
    33245, 33716, 34191, 34670, 35153, 35640, 36131, 36625, 37124, 37626, 38133, 38643,
    39157, 39676, 40198, 40724, 41254, 41789, 42327, 42869, 43415, 43966, 44520, 45079,
    45641, 46208, 46778, 47353, 47932, 48515, 49102, 49693, 50289, 50888, 51492, 52100,
    52712, 53328, 53948, 54572, 55201, 55834, 56471, 57112, 57758, 58408, 59062, 59720,
    60383, 61050, 61721, 62396, 63076, 63760, 64448, 65141, 65837, 66539, 67244, 67954,
    68669, 69387, 70110, 70838, 71569, 72306, 73046, 73791, 74540, 75294, 76052, 76815,
    77582, 78354, 79130, 79910, 80695, 81485, 82279, 83077, 83880, 84687, 85499, 86316,
    87137, 87962, 88792, 89627, 90466, 91310, 92158, 93011, 93869, 94731, 95597, 96469,
    97345, 98225, 99110, 100000 >>

channelToLinear(channel) == LinearTable[channel + 1]

\* 0.2126 R + 0.7152 G + 0.0722 B, in units of 1e-6
relativeLuminance(hexColor) ==
    LET rgb == hexToRgb(hexColor)
    IN IF rgb = NullRGB THEN 0
       ELSE (2126 * channelToLinear(rgb.r) + 7152 * channelToLinear(rgb.g)
             + 722 * channelToLinear(rgb.b) + 500) \div 1000

\* a ratio with the offset 0.5 in place of 0.05
contrastRatioOffset(l1, l2) ==
    LET light == IF l1 > l2 THEN l1 ELSE l2
        dark == IF l1 > l2 THEN l2 ELSE l1
    IN [num |-> light + 500000, den |-> dark + 500000]

\* a ratio that takes its arguments in the order given
contrastRatioUnordered(l1, l2) == [num |-> l1 + 50000, den |-> l2 + 50000]

\* (light + 0.05) / (dark + 0.05)
contrastRatio(l1, l2) ==
    LET light == IF l1 > l2 THEN l1 ELSE l2
        dark == IF l1 > l2 THEN l2 ELSE l1
    IN [num |-> light + 50000, den |-> dark + 50000]

\* Math.round(num / den) for num >= 0, den > 0
Round(num, den) == (2 * num + den) \div (2 * den)

\* Number((num / den).toFixed(2)) in hundredths, num / den counted in units
ToFixed2(num, den) ==
    IF num >= 0 THEN Round(100 * num, den) ELSE 0 - Round(100 * (0 - num), den)

Max(a, b) == IF a > b THEN a ELSE b

resolvedBg(bg) == IF bg = Transparent THEN DEFAULT_TRANSPARENT_BG ELSE bg

\* Math.max(fgLum, bgLum, 0.0001)
maxLum(fgLum, bgLum) == Max(Max(fgLum, bgLum), 100)

\* Math.abs(fgLum - bgLum)
lumDiff(fgLum, bgLum) == IF fgLum > bgLum THEN fgLum - bgLum ELSE bgLum - fgLum

\* Math.round(relativeDiff * 100)
contrastPercent(fgLum, bgLum) ==
    Round(100 * lumDiff(fgLum, bgLum), maxLum(fgLum, bgLum))

\* relativeDiff >= 0.4, relativeDiff = lumDiff / maxLum
meetsContrast(fgLum, bgLum) ==
    10 * lumDiff(fgLum, bgLum) >= 4 * maxLum(fgLum, bgLum)

isInverted(fgLum, bgLum) == fgLum > bgLum

\* Number(((scanDistanceFt * 12) / 10).toFixed(2))
recommendedPrintWidthIn(distanceFt) == ToFixed2(distanceFt * 12, 1000)

\* a maximum distance that divides by the 10 of the rule, not by the 12
\* inches of a foot
maxDistanceFtSwapped(printIn) == ToFixed2(printIn * 12, 1000)

\* Number(((printSizeIn / 12) * 10).toFixed(2))
maxDistanceFt(printIn) == ToFixed2(printIn * 10, 1200)

\* a size check that forgets the undeclared width
sizeOkNoZero(printIn, distanceFt) ==
    printIn >= recommendedPrintWidthIn(distanceFt)

\* a size check that asks for more than the recommended width
sizeOkStrict(printIn, distanceFt) ==
    printIn > recommendedPrintWidthIn(distanceFt) \/ printIn = 0

sizeOk(printIn, distanceFt) ==
    printIn >= recommendedPrintWidthIn(distanceFt) \/ printIn = 0

\* a pixel size without the floor of 256
recommendedPixelSizeNoFloor(printIn) == Round(printIn * 300, 100)

\* Math.max(256, Math.round(printSizeIn * 300))
recommendedPixelSize(printIn) == Max(256, Round(printIn * 300, 100))

Push(list, cond, id) == IF cond THEN Append(list, id) ELSE list

\* warnings that leave out the caveat of the transparent background
warningsNoTransparent(bg, fgLum, bgLum, printIn, distanceFt) ==
    LET w1 == Push(<<>>, ~meetsContrast(fgLum, bgLum), "contrast")
        w2 == Push(w1, isInverted(fgLum, bgLum), "inverted")
    IN Push(w2, ~sizeOk(printIn, distanceFt) /\ printIn > 0, "size")

\* warnings pushed in another order
warningsReordered(bg, fgLum, bgLum, printIn, distanceFt) ==
    LET w1 == Push(<<>>, isInverted(fgLum, bgLum), "inverted")
        w2 == Push(w1, ~meetsContrast(fgLum, bgLum), "contrast")
        w3 == Push(w2, bg = Transparent, "transparent-bg")
    IN Push(w3, ~sizeOk(printIn, distanceFt) /\ printIn > 0, "size")

\* warnings that report the inversion only when the contrast is met
warningsElseIf(bg, fgLum, bgLum, printIn, distanceFt) ==
    LET w1 == Push(<<>>, ~meetsContrast(fgLum, bgLum), "contrast")
        w2 == Push(w1, meetsContrast(fgLum, bgLum) /\ isInverted(fgLum, bgLum),
                   "inverted")
        w3 == Push(w2, ~sizeOk(printIn, distanceFt) /\ printIn > 0, "size")
    IN Push(w3, bg = Transparent, "transparent-bg")

\* the four if (...) warnings.push(...) of the memo, in their order
warnings(bg, fgLum, bgLum, printIn, distanceFt) ==
    LET w1 == Push(<<>>, ~meetsContrast(fgLum, bgLum), "contrast")
        w2 == Push(w1, isInverted(fgLum, bgLum), "inverted")
        w3 == Push(w2, ~sizeOk(printIn, distanceFt) /\ printIn > 0, "size")
    IN Push(w3, bg = Transparent, "transparent-bg")

\* the value of the readiness memo for the state it depends on
readinessMemo(bg, fg, printIn, distanceFt) ==
    LET fgLum == relativeLuminance(fg)
        bgLum == relativeLuminance(resolvedBg(bg))
        ratio == contrastRatio(fgLum, bgLum)
    IN [warnings |-> warnings(bg, fgLum, bgLum, printIn, distanceFt),
        metrics |->
          [resolvedBg |-> resolvedBg(bg),
           contrastPercent |-> contrastPercent(fgLum, bgLum),
           contrastRatio |-> ToFixed2(ratio.num, ratio.den),
           meetsContrast |-> meetsContrast(fgLum, bgLum),
           isInverted |-> isInverted(fgLum, bgLum),
           sizeOk |-> sizeOk(printIn, distanceFt),
           recommendedPrintWidthIn |-> recommendedPrintWidthIn(distanceFt),
           maxDistanceFt |-> maxDistanceFt(printIn),
           recommendedPixelSize |-> recommendedPixelSize(printIn)]]

\* ------------------------------------------- ScanabilityIndicator (App)
\* hex.replace('#', ''): the first '#' is removed
RemoveHash(hex) ==
    IF \E i \in 1..Len(hex) : hex[i] = "#"
    THEN LET k == CHOOSE i \in 1..Len(hex) :
                     hex[i] = "#" /\ \A j \in 1..(i - 1) : hex[j] # "#"
         IN SubSeq(hex, 1, k - 1) \o SubSeq(hex, k + 1, Len(hex))
    ELSE hex

\* the value of the hex digits s[1..n], s[1] the most significant
RECURSIVE HexPrefixValue(_, _)
HexPrefixValue(s, n) ==
    IF n = 0 THEN 0 ELSE 16 * HexPrefixValue(s, n - 1) + HexDigitValue(s[n])

\* parseInt(s, 16): the longest prefix of hex digits is read; NaN, for which
\* -1 stands, when there is none
ParseIntHex(s) ==
    LET n == CHOOSE k \in 0..Len(s) :
                 /\ \A i \in 1..k : IsHexDigit(s[i])
                 /\ k < Len(s) => ~IsHexDigit(s[k + 1])
    IN IF n = 0 THEN -1 ELSE HexPrefixValue(s, n)

\* (rgb >> shift) & 0xff, with NaN >> shift = 0
ByteAt(rgb, shift) == IF rgb < 0 THEN 0 ELSE (rgb \div shift) % 256

\* the substrate the indicator takes for 'transparent'
IndicatorTransparentBg == <<"#", "1", "a", "2", "3", "3", "b">>

\* getLuminance of ScanabilityIndicator, in units of 1e-6
getLuminance(hex) ==
    LET rgb == ParseIntHex(RemoveHash(IF hex = Transparent
                                      THEN IndicatorTransparentBg ELSE hex))
    IN (2126 * channelToLinear(ByteAt(rgb, 65536))
        + 7151 * channelToLinear(ByteAt(rgb, 256))
        + 722 * channelToLinear(ByteAt(rgb, 1)) + 500) \div 1000

\* what ScanabilityIndicator shows for the colours of currentConfig
ScanabilityIndicator(fg, bg) ==
    LET lum1 == getLuminance(fg)
        lum2 == getLuminance(bg)
        contrast == contrastRatio(lum1, lum2)
    IN [level |-> IF contrast.num > 7 * contrast.den THEN "Excellent"
                  ELSE IF 10 * contrast.num > 45 * contrast.den THEN "Good"
                  ELSE IF contrast.num > 3 * contrast.den THEN "Fair"
                  ELSE "Poor",
        isInverted |-> lum1 > lum2]

\* ------------------------------------------------- content and library
\* A string of the content form is either plain text (a sequence of
\* characters) or an absolute URL: its text without the UTM parameters
\* (base), whether it is the serialisation of a URL object (href: 
\* URL.toString() writes "https://example.com" as "https://example.com/"),
\* and the value of each utm_ parameter of its query ("" when absent).
UtmKeys == {"source", "medium", "campaign", "term", "content"}

NoUtm == [key \in UtmKeys |-> ""]

Txt(chars) == [kind |-> "text", text |-> chars, base |-> "", href |-> FALSE,
               utm |-> NoUtm]

Url(base) == [kind |-> "url", text |-> <<>>, base |-> base, href |-> FALSE,
              utm |-> NoUtm]

\* useState of utmParams
DefaultUtm == [source |-> "qr-code", medium |-> "offline",
               campaign |-> "spring-launch", term |-> "",
               content |-> "studio"]

\* what the UTM builder can hold
UtmValues == { DefaultUtm,
               [source |-> "flyer", medium |-> "", campaign |-> "",
                term |-> "x", content |-> ""] }

\* DEFAULT_QR_CODE_CONFIG.rawUrl
DefaultRawUrl == Url("https://example.com")

\* what the Website URL field can hold: URLs with their protocol
BaseUrlValues == { DefaultRawUrl, Url("https://b.org") }

\* ERROR_CORRECTION_LEVELS
ErrorCorrectionLevels == {"L", "M", "Q", "H"}

\* what Date.now() can return when App mounts
Timestamps == 1..MaxClock

\* value.trim()
TrimStr(value) ==
    IF value.kind = "text" THEN Txt(Trim(value.text)) ELSE value

\* new URL(value) does not throw
ParsesAsUrl(value) == value.kind = "url"

\* normalizeUrl: null for a blank value or one that is no URL
normalizeUrl(value) ==
    LET trimmed == TrimStr(value)
    IN IF trimmed = Txt(<<>>)
       THEN [normalized |-> Txt(<<>>), isNull |-> TRUE]
       ELSE IF ParsesAsUrl(trimmed)
       THEN [normalized |-> trimmed, isNull |-> FALSE]
       ELSE [normalized |-> Txt(<<>>), isNull |-> TRUE]

\* buildUrlWithUtm: each utm_ key is set to its parameter, or deleted when
\* the parameter is empty; the result is url.toString()
buildUrlWithUtm(target, params) ==
    [target EXCEPT
        !.href = TRUE,
        !.utm = [key \in UtmKeys |->
                    IF params[key] # "" THEN params[key] ELSE ""]]

\* stripUtmParams: url.toString() without the utm_ keys, or the value itself
\* when it is no URL
stripUtmParams(value) ==
    IF ParsesAsUrl(value)
    THEN [value EXCEPT !.href = TRUE, !.utm = NoUtm]
    ELSE value

\* the utmPreview memo
utmPreview(base, autoUtm, params) ==
    LET urlValidation == normalizeUrl(base)
    IN IF urlValidation.isNull THEN Txt(<<>>)
       ELSE IF autoUtm
       THEN buildUrlWithUtm(urlValidation.normalized, params)
       ELSE urlValidation.normalized

\* the dependencies of the content effect that the model holds
ContentDeps(tab, base, text, autoUtm, params) ==
    <<tab, base, text, utmPreview(base, autoUtm, params)>>

\* the content effect: setCurrentConfig(prev => ({...prev, data: newData ||
\* ' ', contentType: activeContentType, rawUrl: baseUrl.trim()}))
contentEffect(prev, tab, base, text, autoUtm, params) ==
    LET newData == IF tab = "url" THEN utmPreview(base, autoUtm, params)
                   ELSE Txt(text)
    IN [prev EXCEPT
           !.data = IF newData = Txt(<<>>) THEN Txt(ContentData(<<>>))
                    ELSE newData,
           !.contentType = tab,
           !.rawUrl = TrimStr(base)]

\* an auto-optimize effect that never picks 'H'
autoErrorCorrectionEffectNoLogo(prev, image, autoEC) ==
    IF autoEC THEN [prev EXCEPT !.errorCorrectionLevel = "M"] ELSE prev

\* the auto-optimize effect: if (autoErrorCorrection)
\* updateConfig('errorCorrectionLevel', currentConfig.image ? 'H' : 'M')
autoErrorCorrectionEffect(prev, image, autoEC) ==
    IF autoEC
    THEN [prev EXCEPT !.errorCorrectionLevel = IF image THEN "H" ELSE "M"]
    ELSE prev

\* currentConfig after the effects of a render of App: an effect runs when
\* one of its dependencies differs from the previous render (or on mount)
Settled(config, tab, base, text, autoUtm, params, autoEC, runs, levelRuns) ==
    LET afterContent ==
            IF runs
            THEN contentEffect(config, tab, base, text, autoUtm, params)
            ELSE config
    IN IF levelRuns
       THEN autoErrorCorrectionEffect(afterContent, config.image, autoEC)
       ELSE afterContent

\* currentConfig of a mounted App with id `qr-${Date.now()}`, after the
\* effects of the first render
MountedConfig(now) ==
    Settled([id |-> now, data |-> DefaultRawUrl, rawUrl |-> DefaultRawUrl,
             contentType |-> "url", image |-> FALSE,
             errorCorrectionLevel |-> "M"],
            "url", DefaultRawUrl, <<>>, TRUE, DefaultUtm, TRUE, TRUE, TRUE)

\* the entry of the library for a configuration: every field of it
SavedCode(config, fg, bg) ==
    [id |-> config.id, data |-> config.data, rawUrl |-> config.rawUrl,
     contentType |-> config.contentType, image |-> config.image,
     errorCorrectionLevel |-> config.errorCorrectionLevel,
     fgColor |-> fg, bgColor |-> bg]

\* the configuration held by an entry of the library
ConfigOf(code) ==
    [id |-> code.id, data |-> code.data, rawUrl |-> code.rawUrl,
     contentType |-> code.contentType, image |-> code.image,
     errorCorrectionLevel |-> code.errorCorrectionLevel]

\* useLocalStorage('qr-codes-library', []) at mount: the array the page
\* stored last
useLocalStorage(stored) == stored

\* savedQRCodes.findIndex(qr => qr.id === id): 0 stands for -1
RECURSIVE findIndexFrom(_, _, _)
findIndexFrom(codes, id, i) ==
    IF i > Len(codes) THEN 0
    ELSE IF codes[i].id = id THEN i
    ELSE findIndexFrom(codes, id, i + 1)

findIndex(codes, id) == findIndexFrom(codes, id, 1)

\* prev.filter(qr => qr.id !== id)
RECURSIVE filterOut(_, _)
filterOut(codes, id) ==
    IF codes = <<>> THEN <<>>
    ELSE IF Head(codes).id = id THEN filterOut(Tail(codes), id)
    ELSE <<Head(codes)>> \o filterOut(Tail(codes), id)

\* a save that appends whether or not the id is in the library
savedAfterSaveAlwaysAppend(codes, codeToSave) ==
    Append(codes, codeToSave)

\* savedQRCodes after handleSave
savedAfterSave(codes, codeToSave) ==
    LET existingIndex == findIndex(codes, codeToSave.id)
    IN IF existingIndex # 0
       THEN [codes EXCEPT ![existingIndex] = codeToSave]
       ELSE Append(codes, codeToSave)

\* ------------------------------------------------------------------ Init
\* First mount with isOpen = false: the effect ran its close branch with
\* nothing to stop or cancel.
Init ==
    /\ isOpen = FALSE
    /\ expectedData \in ExpectedValues
    /\ mounted = TRUE
    /\ stale = FALSE
    /\ status = "idle"
    /\ scannedData = <<>>
    /\ statusQ = <<>>
    /\ scannedQ = <<>>
    /\ videoMounted = FALSE
    /\ srcObject = "null"
    /\ leaked = 0
    /\ animationFrameId = NoHandle
    /\ rafQueue = EmptyBag
    /\ requests = EmptyBag
    /\ lastFrame = NoFrame
    \* DEFAULT_QR_CODE_CONFIG, useState(6), useState(3)
    /\ fgColor = DefaultFg
    /\ bgColor = Transparent
    /\ scanDistanceFt = 600
    /\ printSizeIn = 300
    /\ readiness = readinessMemo(Transparent, DefaultFg, 300, 600)
    \* App mounts with an empty library
    /\ currentConfig = MountedConfig(1)
    /\ savedQRCodes = <<>>
    /\ activeContentType = "url"
    /\ autoErrorCorrection = TRUE
    /\ baseUrl = DefaultRawUrl
    /\ autoUtmEnabled = TRUE
    /\ utmParams = DefaultUtm
    /\ textData = <<>>

\* --------------------------------------------------------------- actions
\* React renders the component with props (open, data) and the pending state
\* updates, commits, and flushes the effect: when isOpen or tick differ from
\* the previous render, the cleanup of the previous effect runs and then the
\* effect body.
Commit(open, data) ==
    LET newStatus == IF statusQ # <<>> THEN statusQ[1] ELSE status
        newScanned == IF scannedQ # <<>> THEN scannedQ[1] ELSE scannedData
        \* tick = useCallback(..., [expectedData, status])
        tickChanged == newStatus # status \/ data # expectedData
        \* useEffect(..., [isOpen, tick])
        rerun == tickChanged \/ open # isOpen
        \* {isOpen && ...} inside AnimatePresence: the video element is
        \* mounted while open and kept during the exit animation
        attached == open \/ videoMounted
        stopped == StopTracks(attached, srcObject)
        cancelled == Cancel(rafQueue, animationFrameId)
    IN /\ isOpen' = open
       /\ expectedData' = data
       /\ status' = newStatus
       /\ scannedData' = newScanned
       /\ videoMounted' = attached
       /\ stale' = (open /\ ~isOpen /\ newStatus # "idle")
       /\ IF ~rerun
          THEN /\ statusQ' = <<>>
               /\ scannedQ' = <<>>
               /\ UNCHANGED <<srcObject, rafQueue, requests,
                              animationFrameId>>
          ELSE IF open
          THEN \* setStatus('idle'); setScannedData(''); getUserMedia(...)
               /\ BagCardinality(requests) < MaxRequests
               /\ statusQ' = <<"idle">>
               /\ scannedQ' = << <<>> >>
               /\ requests' = requests (+) SetToBag({TickOf(data, newStatus)})
               /\ srcObject' = stopped
               /\ rafQueue' = cancelled
               /\ animationFrameId' = Expire(animationFrameId)
          ELSE \* close branch: stop tracks, srcObject = null, cancel
               /\ statusQ' = <<>>
               /\ scannedQ' = <<>>
               /\ srcObject' = IF attached THEN "null" ELSE srcObject
               /\ rafQueue' = cancelled
               /\ animationFrameId' = Expire(animationFrameId)
               /\ UNCHANGED requests
       \* the close branch and the cleanup clear the overlay canvas
       /\ lastFrame' = IF rerun /\ attached THEN ClearedOverlay ELSE NoFrame
       /\ UNCHANGED <<mounted, leaked, hostVars>>

\* onOpenScanner / the Test button: setIsScanModalOpen(true)
Open ==
    /\ mounted /\ ~isOpen
    /\ Commit(TRUE, expectedData)

\* onClose: setIsScanModalOpen(false)
Close ==
    /\ mounted /\ isOpen
    /\ Commit(FALSE, expectedData)

\* the content effect of App stores a new currentConfig.data
ChangeExpected ==
    /\ mounted
    /\ \E d \in ExpectedValues \ {expectedData} : Commit(isOpen, d)

\* React re-renders after setStatus / setScannedData
Render ==
    /\ mounted
    /\ statusQ # <<>> \/ scannedQ # <<>>
    /\ Commit(isOpen, expectedData)

\* the exit animation of AnimatePresence ends: the video element is removed,
\* and a stream still attached to it is out of the component's reach
ExitComplete ==
    /\ mounted /\ ~isOpen /\ videoMounted
    /\ videoMounted' = FALSE
    /\ srcObject' = "null"
    /\ leaked' = LiveStreams
    /\ lastFrame' = NoFrame
    /\ UNCHANGED <<isOpen, expectedData, mounted, stale, status, scannedData,
                   statusQ, scannedQ, animationFrameId, rafQueue, requests>>
    /\ UNCHANGED hostVars

\* getUserMedia resolves with a stream: the .then callback of the effect
Resolve ==
    \E t \in BagToSet(requests) :
        /\ LiveStreams < MaxStreams
        /\ requests' = requests (-) SetToBag({t})
        /\ IF videoMounted
           THEN \* if (videoRef.current) { srcObject = stream; ... }
                /\ BagCardinality(rafQueue) < MaxFrames
                /\ leaked' = LiveStreams
                /\ srcObject' = "live"
                /\ animationFrameId' = HandleOf(t)
                /\ rafQueue' = Schedule(rafQueue, t)
           ELSE /\ leaked' = leaked + 1
                /\ UNCHANGED <<srcObject, animationFrameId, rafQueue>>
        /\ lastFrame' = NoFrame
        /\ UNCHANGED <<isOpen, expectedData, mounted, stale, status,
                       scannedData, statusQ, scannedQ, videoMounted>>
        /\ UNCHANGED hostVars

\* getUserMedia rejects: the .catch callback of the effect
Reject ==
    \E t \in BagToSet(requests) :
        /\ requests' = requests (-) SetToBag({t})
        /\ statusQ' = IF mounted THEN <<"no_permission">> ELSE statusQ
        /\ lastFrame' = NoFrame
        /\ UNCHANGED <<isOpen, expectedData, mounted, stale, status,
                       scannedData, scannedQ, videoMounted, srcObject,
                       leaked, animationFrameId, rafQueue>>
        /\ UNCHANGED hostVars

\* what one run of tick reports in lastFrame
FrameOf(kind, done, exp, location, drawn) ==
    [decode |-> kind, completed |-> done, exp |-> exp,
     location |-> location, overlay |-> drawn]

\* animationFrameId.current = requestAnimationFrame(tick), last line of tick:
\* the callback that ran leaves the queue and tick t enters it again
Reschedule(t) ==
    /\ animationFrameId' = HandleOf(t)
    /\ rafQueue' = Schedule(rafQueue (-) SetToBag({t}), t)

\* videoRef.current, readyState === HAVE_ENOUGH_DATA, canvasRef.current and
\* the 2d context are all there: a frame can only be ready on a mounted video
\* element that has a stream attached
CanProcess == videoMounted /\ srcObject # "null"

\* the condition of tick fails: no frame is processed
TickSkipped(t) ==
    /\ lastFrame' = NoFrame
    /\ Reschedule(t)
    /\ UNCHANGED <<statusQ, scannedQ>>

\* jsQR throws; it is called outside any try, so tick ends there.  The
\* callback that ran is the one animationFrameId.current refers to, or
\* another pending callback running the same tick.
TickThrows(t) ==
    /\ CanProcess
    /\ lastFrame' = FrameOf("throws", FALSE, <<>>, NoLocation, <<>>)
    /\ rafQueue' = rafQueue (-) SetToBag({t})
    /\ \/ /\ animationFrameId = HandleOf(t)
          /\ animationFrameId' = StaleHandle
       \/ /\ animationFrameId # HandleOf(t) \/ CopiesIn(t, rafQueue) > 1
          /\ UNCHANGED animationFrameId
    /\ UNCHANGED <<statusQ, scannedQ>>

\* jsQR returns a code with payload data
TickDetected(t, data, location) ==
    /\ CanProcess
    /\ lastFrame' = FrameOf("code", TRUE, t.exp, location,
                             <<ClearRect>> \o
                             DrawDetected(IsMatch(data, t.exp), location))
    /\ scannedQ' = <<data>>
    /\ statusQ' = <<DetectedStatus(data, t.exp)>>
    /\ Reschedule(t)

\* jsQR returns null
TickNoCode(t) ==
    /\ CanProcess
    /\ lastFrame' = FrameOf("null", TRUE, <<>>, NoLocation,
                             <<ClearRect>> \o DrawGuide)
    /\ statusQ' = NoCodeUpdate(t.scanning, statusQ)
    /\ Reschedule(t)
    /\ UNCHANGED scannedQ

\* the browser runs one pending frame callback
Tick ==
    \E t \in BagToSet(rafQueue) :
        /\ \/ TickSkipped(t)
           \/ TickThrows(t)
           \/ \E data \in Payloads, location \in Locations :
                  TickDetected(t, data, location)
           \/ TickNoCode(t)
        /\ UNCHANGED <<isOpen, expectedData, mounted, stale, status,
                       scannedData, videoMounted, srcObject, leaked,
                       requests>>
        /\ UNCHANGED hostVars

\* The component is torn down: React runs the cleanup of the last effect and
\* discards the instance.  React 17 and later detach the ref of the removed
\* video element before the cleanup runs, React 16 after it; the sources do
\* not pin the version, so the cleanup may or may not still see the element.
Unmount ==
    /\ mounted
    /\ \E seen \in BOOLEAN :
        /\ seen => videoMounted
        /\ leaked' = leaked +
              (IF StopTracks(seen, srcObject) = "live" THEN 1 ELSE 0)
        /\ lastFrame' = IF seen THEN ClearedOverlay ELSE NoFrame
    /\ rafQueue' = Cancel(rafQueue, animationFrameId)
    /\ animationFrameId' = Expire(animationFrameId)
    /\ mounted' = FALSE
    /\ isOpen' = FALSE
    /\ stale' = FALSE
    /\ status' = "idle"
    /\ scannedData' = <<>>
    /\ statusQ' = <<>>
    /\ scannedQ' = <<>>
    /\ videoMounted' = FALSE
    /\ srcObject' = "null"
    /\ UNCHANGED <<expectedData, requests, hostVars>>

Next ==
    \/ Open
    \/ Close
    \/ ChangeExpected
    \/ Render
    \/ ExitComplete
    \/ Resolve
    \/ Reject
    \/ Tick
    \/ Unmount

Spec == Init /\ [][Next]_vars

\* The behaviours in which the expected data is not edited during the run:
\* every step is one of the view itself.
SessionNext ==
    \/ Open
    \/ Close
    \/ Render
    \/ ExitComplete
    \/ Resolve
    \/ Reject
    \/ Tick
    \/ Unmount

SessionSpec == Init /\ [][SessionNext]_vars

\* The behaviours of one session in which the view is opened and stays open,
\* the camera is granted, and jsQR finds in every frame the payload equal to
\* the trimmed expected data.
MatchTick ==
    \E t \in BagToSet(rafQueue) :
        /\ \/ TickSkipped(t)
           \/ \E location \in Locations :
                  TickDetected(t, Trim(expectedData), location)
        /\ UNCHANGED <<isOpen, expectedData, mounted, stale, status,
                       scannedData, videoMounted, srcObject, leaked,
                       requests>>
        /\ UNCHANGED hostVars

MatchNext ==
    \/ Open
    \/ Render
    \/ Resolve
    \/ MatchTick

MatchSpec == Init /\ [][MatchNext]_vars

\* ------------------------------------------------- scan readiness actions
\* Every handler below ends in a render of App, in which the readiness memo
\* is computed again from the state it depends on.
Memo(bg, fg, printIn, distanceFt) ==
    /\ bgColor' = bg
    /\ fgColor' = fg
    /\ printSizeIn' = printIn
    /\ scanDistanceFt' = distanceFt
    \* useMemo(..., [bgColor, fgColor, printSizeIn, scanDistanceFt])
    /\ readiness' =
         IF <<bg, fg, printIn, distanceFt>>
              = <<bgColor, fgColor, printSizeIn, scanDistanceFt>>
         THEN readiness
         ELSE readinessMemo(bg, fg, printIn, distanceFt)

\* a handler that changes nothing but the colours and the two lengths
Rerender(bg, fg, printIn, distanceFt) ==
    /\ Memo(bg, fg, printIn, distanceFt)
    /\ UNCHANGED <<scanVars, libVars>>

\* ColorInput of the foreground: the colour picker, or the Clear button
onFgColorChange ==
    \E c \in PickerColors \cup {Transparent} :
        /\ c = Transparent => fgColor # Transparent
        /\ Rerender(bgColor, c, printSizeIn, scanDistanceFt)

\* ColorInput of the background
onBgColorChange ==
    \E c \in PickerColors \cup {Transparent} :
        /\ c = Transparent => bgColor # Transparent
        /\ Rerender(c, fgColor, printSizeIn, scanDistanceFt)

\* App renders with the state the handler set, and its effects run: the
\* content effect when one of its dependencies changed, the auto-optimize
\* effect when currentConfig.image or autoErrorCorrection changed
AppRender(config, saved, tab, autoEC, base, autoUtm, params, text) ==
    /\ currentConfig' =
         Settled(config, tab, base, text, autoUtm, params, autoEC,
                 ContentDeps(tab, base, text, autoUtm, params)
                   # ContentDeps(activeContentType, baseUrl, textData,
                                 autoUtmEnabled, utmParams),
                 <<config.image, autoEC>>
                   # <<currentConfig.image, autoErrorCorrection>>)
    /\ savedQRCodes' = saved
    /\ activeContentType' = tab
    /\ autoErrorCorrection' = autoEC
    /\ baseUrl' = base
    /\ autoUtmEnabled' = autoUtm
    /\ utmParams' = params
    /\ textData' = text

\* a handler that sets currentConfig and nothing else
SetConfig(config) ==
    /\ AppRender(config, savedQRCodes, activeContentType,
                 autoErrorCorrection, baseUrl, autoUtmEnabled, utmParams,
                 textData)
    /\ UNCHANGED <<scanVars, appVars>>

\* a template button: setCurrentConfig(prev => ({...prev, ...config})); each
\* template sets the colours and image: undefined
applyTemplate ==
    \E config \in Templates :
        /\ Memo(config.bgColor, config.fgColor, printSizeIn, scanDistanceFt)
        /\ AppRender([currentConfig EXCEPT !.image = FALSE], savedQRCodes,
                     activeContentType, autoErrorCorrection, baseUrl,
                     autoUtmEnabled, utmParams, textData)
        /\ UNCHANGED scanVars

\* a saved code of the library is loaded: setCurrentConfig(codeToLoad)
handleLoadQRCode ==
    \E codeToLoad \in SavedCodes :
        Rerender(codeToLoad.bgColor, codeToLoad.fgColor, printSizeIn,
                 scanDistanceFt)

\* what Number(value) can be for the text of a number field: not finite, or
\* a number, counted in thousandths
TypedValues ==
    {[finite |-> FALSE, milli |-> 0]} \cup
    {[finite |-> TRUE, milli |-> m] :
        m \in ((0 - 2)..MaxTypedMilli) \cup {720, 3000, 6000, 7200}}

\* Math.max(0, parseFloat(next.toFixed(2)))
Clamp2(next) == Max(0, ToFixed2(next.milli, 1000))

handleDistanceChange ==
    \E next \in TypedValues :
        IF ~next.finite
        THEN UNCHANGED vars
        ELSE Rerender(bgColor, fgColor, printSizeIn, Clamp2(next))

handlePrintSizeChange ==
    \E next \in TypedValues :
        IF ~next.finite
        THEN UNCHANGED vars
        ELSE Rerender(bgColor, fgColor, Clamp2(next), scanDistanceFt)

ReadinessNext ==
    \/ onFgColorChange
    \/ onBgColorChange
    \/ applyTemplate
    \/ handleLoadQRCode
    \/ handleDistanceChange
    \/ handlePrintSizeChange

\* The behaviours of the studio while the scan verification view stays
\* closed: the user edits colours, distance and print width.
ReadinessSpec == Init /\ [][ReadinessNext]_vars

\* ------------------------------------------- content and library actions
\* ContentTypeTabs: setActiveContentType
onTypeChange ==
    \E tab \in {"url", "text"} \ {activeContentType} :
        /\ AppRender(currentConfig, savedQRCodes, tab, autoErrorCorrection,
                     baseUrl, autoUtmEnabled, utmParams, textData)
        /\ UNCHANGED <<scanVars, appVars>>

\* the Website URL field of the URL tab: setBaseUrl(e.target.value)
onBaseUrlChange ==
    /\ activeContentType = "url"
    /\ \E value \in BaseUrlValues \ {baseUrl} :
        /\ AppRender(currentConfig, savedQRCodes, activeContentType,
                     autoErrorCorrection, value, autoUtmEnabled, utmParams,
                     textData)
        /\ UNCHANGED <<scanVars, appVars>>

\* the Text field of the Text tab: setTextData(e.target.value)
onTextChange ==
    /\ activeContentType = "text"
    /\ \E value \in TextValues \ {textData} :
        /\ AppRender(currentConfig, savedQRCodes, activeContentType,
                     autoErrorCorrection, baseUrl, autoUtmEnabled, utmParams,
                     value)
        /\ UNCHANGED <<scanVars, appVars>>

\* UtmBuilder onToggle: setAutoUtmEnabled
onToggleUtm ==
    /\ activeContentType = "url"
    /\ AppRender(currentConfig, savedQRCodes, activeContentType,
                 autoErrorCorrection, baseUrl, ~autoUtmEnabled, utmParams,
                 textData)
    /\ UNCHANGED <<scanVars, appVars>>

\* UtmBuilder onChange: setUtmParams
onUtmChange ==
    /\ activeContentType = "url"
    /\ \E params \in UtmValues \ {utmParams} :
        /\ AppRender(currentConfig, savedQRCodes, activeContentType,
                     autoErrorCorrection, baseUrl, autoUtmEnabled, params,
                     textData)
        /\ UNCHANGED <<scanVars, appVars>>

\* handleLogoUpload, once the file is read: updateConfig('image', result)
handleLogoUpload ==
    SetConfig([currentConfig EXCEPT !.image = TRUE])

\* LogoUpload onRemove: updateConfig('image', undefined)
onRemove ==
    /\ currentConfig.image
    /\ SetConfig([currentConfig EXCEPT !.image = FALSE])

\* AutoOptimizeToggle: setAutoErrorCorrection
onAutoOptimizeChange ==
    /\ AppRender(currentConfig, savedQRCodes, activeContentType,
                 ~autoErrorCorrection, baseUrl, autoUtmEnabled, utmParams,
                 textData)
    /\ UNCHANGED <<scanVars, appVars>>

\* the Level control, which takes no click while auto-optimize is on:
\* updateConfig('errorCorrectionLevel', v)
onLevelChange ==
    /\ ~autoErrorCorrection
    /\ \E v \in ErrorCorrectionLevels \ {currentConfig.errorCorrectionLevel} :
        SetConfig([currentConfig EXCEPT !.errorCorrectionLevel = v])

\* handleSave: the entry with the current id is replaced in place, or the
\* code is appended; setCurrentConfig(codeToSave)
handleSave ==
    LET codeToSave == [currentConfig EXCEPT !.rawUrl = TrimStr(baseUrl)]
    IN /\ AppRender(codeToSave,
                    savedAfterSave(savedQRCodes,
                                   SavedCode(codeToSave, fgColor, bgColor)),
                    activeContentType, autoErrorCorrection, baseUrl,
                    autoUtmEnabled, utmParams, textData)
       /\ UNCHANGED <<scanVars, appVars>>

\* handleLoadQRCode(id) from the library panel
onLoad ==
    \E i \in 1..Len(savedQRCodes) :
        LET codeToLoad == savedQRCodes[i]
            isUrl == codeToLoad.contentType = "url"
            parsed == isUrl /\ ParsesAsUrl(codeToLoad.data)
            nextParams ==
                [key \in UtmKeys |->
                    IF codeToLoad.data.utm[key] # ""
                    THEN codeToLoad.data.utm[key] ELSE utmParams[key]]
            containsUtm == \E key \in UtmKeys : codeToLoad.data.utm[key] # ""
            storedRaw == TrimStr(codeToLoad.rawUrl)
        IN /\ Memo(codeToLoad.bgColor, codeToLoad.fgColor, printSizeIn,
                   scanDistanceFt)
           /\ AppRender(ConfigOf(codeToLoad), savedQRCodes,
                        activeContentType, autoErrorCorrection,
                        IF ~isUrl THEN baseUrl
                        ELSE IF storedRaw # Txt(<<>>) THEN storedRaw
                        ELSE stripUtmParams(codeToLoad.data),
                        IF parsed THEN containsUtm \/ autoUtmEnabled
                        ELSE autoUtmEnabled,
                        IF parsed THEN nextParams ELSE utmParams,
                        textData)
           /\ UNCHANGED scanVars

\* handleDeleteQRCode(id) from the library panel
handleDeleteQRCode ==
    \E i \in 1..Len(savedQRCodes) :
        /\ AppRender(currentConfig, filterOut(savedQRCodes, savedQRCodes[i].id),
                     activeContentType, autoErrorCorrection, baseUrl,
                     autoUtmEnabled, utmParams, textData)
        /\ UNCHANGED <<scanVars, appVars>>

\* the page is loaded again: every useState starts over, with a new id from
\* Date.now(); the library is read back from localStorage
Reload ==
    \E now \in Timestamps :
        /\ Memo(Transparent, DefaultFg, 300, 600)
        /\ currentConfig' = MountedConfig(now)
        /\ savedQRCodes' = useLocalStorage(savedQRCodes)
        /\ activeContentType' = "url"
        /\ autoErrorCorrection' = TRUE
        /\ baseUrl' = DefaultRawUrl
        /\ autoUtmEnabled' = TRUE
        /\ utmParams' = DefaultUtm
        /\ textData' = <<>>
        /\ UNCHANGED scanVars

\* The behaviours of the error correction controls, the logo, the
\* templates and the library while the content form is left alone, the page
\* is not loaded again and the scan verification view stays closed.
LevelNext ==
    \/ handleLogoUpload
    \/ onRemove
    \/ onAutoOptimizeChange
    \/ onLevelChange
    \/ applyTemplate
    \/ handleSave
    \/ onLoad
    \/ handleDeleteQRCode

LevelSpec == Init /\ [][LevelNext]_vars

\* The behaviours of the content form and the library while the design
\* controls are left alone, the page is not loaded again and the scan
\* verification view stays closed.
ContentNext ==
    \/ onTypeChange
    \/ onBaseUrlChange
    \/ onTextChange
    \/ onToggleUtm
    \/ onUtmChange
    \/ handleSave
    \/ onLoad
    \/ handleDeleteQRCode

ContentSpec == Init /\ [][ContentNext]_vars

\* The behaviours of the library over several loads of the page, with the
\* content switched between the tabs and the scan verification view closed.
LibraryNext ==
    \/ onTypeChange
    \/ handleSave
    \/ onLoad
    \/ handleDeleteQRCode
    \/ Reload

LibrarySpec == Init /\ [][LibraryNext]_vars

TickValues == [exp : ExpectedValues, scanning : BOOLEAN]

TypeOK ==
    /\ isOpen \in BOOLEAN /\ mounted \in BOOLEAN /\ stale \in BOOLEAN
    /\ expectedData \in ExpectedValues
    /\ status \in StatusValues
    /\ scannedData \in Payloads \cup {<<>>}
    /\ statusQ \in {<<>>} \cup {<<v>> : v \in StatusValues}
    /\ scannedQ \in {<<>>} \cup {<<v>> : v \in Payloads \cup {<<>>}}
    /\ videoMounted \in BOOLEAN
    /\ srcObject \in {"null", "live", "ended"}
    /\ ~videoMounted => srcObject = "null"
    /\ leaked \in 0..MaxStreams
    /\ LiveStreams <= MaxStreams
    /\ animationFrameId \in
          {NoHandle, StaleHandle} \cup {HandleOf(t) : t \in TickValues}
    /\ IsABag(rafQueue) /\ BagToSet(rafQueue) \subseteq TickValues
    /\ BagCardinality(rafQueue) <= MaxFrames
    /\ animationFrameId.pending => BagIn(animationFrameId.tick, rafQueue)
    /\ IsABag(requests) /\ BagToSet(requests) \subseteq TickValues
    /\ BagCardinality(requests) <= MaxRequests
    /\ lastFrame.decode \in {"none", "null", "throws", "code"}
    /\ scanDistanceFt \in Nat /\ printSizeIn \in Nat
    /\ readiness = readinessMemo(bgColor, fgColor, printSizeIn, scanDistanceFt)
    /\ currentConfig.id \in Timestamps
    /\ currentConfig.errorCorrectionLevel \in ErrorCorrectionLevels
    /\ currentConfig.contentType \in {"url", "text"}
    /\ activeContentType \in {"url", "text"}
    /\ baseUrl \in BaseUrlValues
    /\ utmParams \in [UtmKeys -> STRING]
    /\ textData \in TextValues
    /\ \A i \in 1..Len(savedQRCodes) : savedQRCodes[i].id \in Timestamps

\* ---------------------------------------------------------------- claims
\* trimming stated directly: what lies between the first and the last
\* character that is not whitespace
Stripped(s) ==
    LET keep == {i \in 1..Len(s) : s[i] # " "}
    IN IF keep = {} THEN <<>>
       ELSE SubSeq(s, CHOOSE i \in keep : \A j \in keep : i <= j,
                      CHOOSE i \in keep : \A j \in keep : j <= i)

\* C1: once the view is closed (isOpen false, or the component torn down) no
\* camera stream acquired for it has a live track, whatever the order of the
\* close and the completion of the camera request.
C1_NoLiveTrackAfterClose ==
    ~isOpen => LiveStreams = 0

\* C2: once the view is closed no frame callback is pending and no decode
\* attempt is made.
C2_NoFrameAfterClose ==
    ~isOpen => /\ rafQueue = EmptyBag
               /\ lastFrame.decode \notin {"null", "throws", "code"}

\* C3: while the view stays open (the reset of a re-opened view aside),
\* no_permission is terminal: status stays no_permission, and in no_permission
\* neither a frame callback nor a camera request is added.
C3_NoPermissionTerminal ==
    [][(isOpen /\ isOpen' /\ ~stale) =>
         /\ status = "no_permission" => status' = "no_permission"
         /\ status' = "no_permission" =>
               /\ BagCardinality(rafQueue') <= BagCardinality(rafQueue)
               /\ BagCardinality(requests') <= BagCardinality(requests)]_vars

\* C4: a frame in which the decoder detects a code asks for status success
\* when the payload equals the expected data of that tick stripped of
\* surrounding whitespace (the payload itself is compared as it is), and for
\* status error otherwise.
C4_MatchIsExactAgainstTrimmed ==
    lastFrame.decode = "code" =>
        /\ scannedQ # <<>>
        /\ statusQ \in {<<"success">>, <<"error">>}
        /\ statusQ = <<"success">> <=> scannedQ[1] = Stripped(lastFrame.exp)

C4_Witness ==
    /\ lastFrame.decode = "code"
    /\ lastFrame.exp = <<" ", "a">>
    /\ scannedQ = << <<"a">> >>
    /\ statusQ = <<"success">>

\* C5: while the view stays open, status scanning is left only for success
\* or error (a frame with a detected code) or no_permission (a denied
\* request); with the camera granted and no code in any frame it stays
\* scanning.
C5_ScanningPersists ==
    [][(isOpen /\ isOpen' /\ ~stale /\ status = "scanning") =>
         status' \in {"scanning", "success", "error", "no_permission"}]_vars

DocumentedEdges ==
    { <<"idle", "scanning">>, <<"idle", "no_permission">>,
      <<"scanning", "success">>, <<"scanning", "error">>,
      <<"success", "scanning">>, <<"success", "error">>,
      <<"error", "scanning">>, <<"error", "success">> }

\* C6: while the view stays open (the reset of a re-opened view aside), every
\* change of status is an edge of the documented machine.
C6_OnlyDocumentedEdges ==
    [][(isOpen /\ isOpen' /\ ~stale /\ status' # status) =>
         <<status, status'>> \in DocumentedEdges]_vars

\* C7: entering error neither ends nor restarts the frame loop (streams,
\* camera requests and pending callbacks are as before), and a frame
\* processed while status is error asks for scanning when no code is
\* detected and for success or error by the payload otherwise.
C7_ErrorKeepsLoop ==
    [][(isOpen /\ isOpen' /\ ~stale) =>
         /\ (status # "error" /\ status' = "error") =>
               /\ LiveStreams' = LiveStreams
               /\ requests' = requests
               /\ rafQueue' = rafQueue
         /\ (status = "error" /\ lastFrame'.decode = "null") =>
               statusQ' = <<"scanning">>
         /\ (status = "error" /\ lastFrame'.decode = "code") =>
               statusQ' = <<DetectedStatus(scannedQ'[1], expectedData)>>]_vars

\* C8: a frame whose decode throws is absorbed: the callback completes and
\* the next frame callback is scheduled.
C8_DecodeThrowAbsorbed ==
    lastFrame.decode = "throws" =>
        /\ lastFrame.completed
        /\ animationFrameId.pending

\* C9: at most one frame callback is pending.
C9_OneFramePending ==
    BagCardinality(rafQueue) <= 1

\* C10: at most one camera stream or camera request exists at a time: one
\* live stream, or one pending request, never both and never two.
C10_OneStream ==
    LiveStreams + BagCardinality(requests) <= 1

\* C11: asking the controller to stop when nothing was ever started is a
\* no-op.  When the close branch or the cleanup of the effect runs with no
\* srcObject and no frame id (on opening a view mounted closed, on closing
\* or re-running the effect after no_permission),
\* it leaves the stream, the frame callbacks and the frame id as they were,
\* status and scannedData get no value other than the one the render already
\* carried, and the close branch queues no update.
StopRuns ==
    /\ mounted /\ mounted'
    /\ \/ isOpen' # isOpen
       \/ isOpen /\ isOpen' /\ (status' # status \/ expectedData' # expectedData)

NothingStarted == srcObject = "null" /\ ~animationFrameId.set

C11_StopNeverStartedIsNoOp ==
    [][(StopRuns /\ NothingStarted) =>
         /\ srcObject' = "null"
         /\ leaked' = leaked
         /\ rafQueue' = rafQueue
         /\ animationFrameId' = animationFrameId
         /\ status' = (IF statusQ # <<>> THEN statusQ[1] ELSE status)
         /\ scannedData' = (IF scannedQ # <<>> THEN scannedQ[1] ELSE scannedData)
         /\ ~isOpen' => (statusQ' = <<>> /\ scannedQ' = <<>>)]_vars

\* the view was closed after no_permission, and no stream was ever attached
C11_Witness ==
    /\ mounted /\ ~isOpen
    /\ status = "no_permission"
    /\ ~animationFrameId.set
    /\ srcObject = "null"

\* ------------------------------------------------- scan readiness claims
\* the quantities the claims speak of, stated from the inputs
WarningOrder == <<"contrast", "inverted", "size", "transparent-bg">>

HasWarning(id) ==
    \E i \in 1..Len(readiness.warnings) : readiness.warnings[i] = id

FgLum == relativeLuminance(fgColor)

BgLum ==
    relativeLuminance(IF bgColor = Transparent THEN DEFAULT_TRANSPARENT_BG
                      ELSE bgColor)

\* |fgLum - bgLum| / max(fgLum, bgLum, 0.0001) >= 40%
ContrastAtLeast40 ==
    LET diff == IF FgLum > BgLum THEN FgLum - BgLum ELSE BgLum - FgLum
        top == IF FgLum > BgLum THEN FgLum ELSE BgLum
    IN 10 * diff >= 4 * (IF top > 100 THEN top ELSE 100)

\* distance x 12 / 10 rounded to the hundredth of an inch
RoundedRecommendedWidth == (12 * scanDistanceFt + 5) \div 10

\* a '#' followed by 3 or 6 hex digits
IsHexColor(c) ==
    /\ Len(c) \in {4, 7}
    /\ c[1] = "#"
    /\ \A i \in 2..Len(c) : IsHexDigit(c[i])

\* C12: the warning list is empty (verdict Ready) if and only if the relative
\* luminance difference is at least 40%, the foreground is not lighter than
\* the resolved background, the print width is 0 or at least the recommended
\* width, and the raw background is not 'transparent'.
C12_ReadyIff ==
    (readiness.warnings = <<>>) <=>
        /\ ContrastAtLeast40
        /\ ~(FgLum > BgLum)
        /\ printSizeIn = 0 \/ printSizeIn >= RoundedRecommendedWidth
        /\ bgColor # Transparent

\* black on white, printed 7.2 in wide for 6 ft: Ready
C12_Witness ==
    /\ fgColor = Black /\ bgColor = White
    /\ scanDistanceFt = 600 /\ printSizeIn = 720
    /\ readiness.warnings = <<>>

\* C13: the warning list is a subsequence of contrast, inverted, size,
\* transparent-bg in that order, holds each id at most once, and is the one
\* list that belongs to the current inputs.
C13_WarningsOrdered ==
    LET w == readiness.warnings
        Rank(id) == CHOOSE k \in 1..4 : WarningOrder[k] = id
    IN /\ \A i \in 1..Len(w) : \E k \in 1..4 : WarningOrder[k] = w[i]
       /\ \A i, j \in 1..Len(w) : i < j => Rank(w[i]) < Rank(w[j])
       /\ w = readinessMemo(bgColor, fgColor, printSizeIn, scanDistanceFt).warnings

\* all four warnings at once
C13_Witness ==
    /\ bgColor = Transparent
    /\ printSizeIn > 0
    /\ readiness.warnings = WarningOrder

\* C14: the inverted warning is present if and only if the luminance of the
\* foreground exceeds the luminance of the resolved background, whether or
\* not the contrast warning is present; metrics.isInverted has the same
\* value; white on black is inverted with the ratio 21.
C14_InvertedIff ==
    /\ HasWarning("inverted") <=> FgLum > BgLum
    /\ readiness.metrics.isInverted <=> FgLum > BgLum
    /\ (fgColor = White /\ bgColor = Black) =>
          /\ HasWarning("inverted")
          /\ readiness.metrics.isInverted
          /\ readiness.metrics.contrastRatio = 2100

\* the contrast warning and the inverted warning together
C14_Witness ==
    /\ HasWarning("contrast")
    /\ HasWarning("inverted")
    /\ FgLum > BgLum

\* C15: for valid colours f and b the contrast ratio of (foreground f,
\* background b) equals the one of (foreground b, background f).
C15_RatioSymmetric ==
    (IsHexColor(fgColor) /\ IsHexColor(bgColor)) =>
        /\ contrastRatio(FgLum, BgLum) = contrastRatio(BgLum, FgLum)
        /\ readiness.metrics.contrastRatio =
             readinessMemo(fgColor, bgColor, printSizeIn,
                           scanDistanceFt).metrics.contrastRatio

\* two valid colours of different luminance, the lighter one in front
C15_Witness ==
    /\ IsHexColor(fgColor) /\ IsHexColor(bgColor)
    /\ FgLum > BgLum
    /\ readiness.metrics.contrastRatio > 100

\* C16: the contrast ratio of a colour with itself is exactly 1; for valid
\* colours it lies in [1, 21]; black against white gives 21 in either order.
C16_RatioRange ==
    (IsHexColor(fgColor) /\ IsHexColor(bgColor)) =>
        LET ratio == contrastRatio(FgLum, BgLum)
            BlackAndWhite == {fgColor, bgColor} = {Black, White}
        IN /\ ratio.den <= ratio.num /\ ratio.num <= 21 * ratio.den
           /\ 100 <= readiness.metrics.contrastRatio
           /\ readiness.metrics.contrastRatio <= 2100
           /\ fgColor = bgColor =>
                 /\ ratio.num = ratio.den
                 /\ readiness.metrics.contrastRatio = 100
           /\ BlackAndWhite =>
                 /\ ratio.num = 21 * ratio.den
                 /\ readiness.metrics.contrastRatio = 2100

\* black on white: 21, with neither the contrast nor the inverted warning
C16_Witness ==
    /\ fgColor = Black /\ bgColor = White
    /\ readiness.metrics.contrastRatio = 2100
    /\ ~HasWarning("contrast") /\ ~HasWarning("inverted")

\* C17: with the print width 0, sizeOk is true and there is no size warning,
\* for every scan distance.
C17_UndeclaredWidthOk ==
    printSizeIn = 0 =>
        /\ readiness.metrics.sizeOk
        /\ ~HasWarning("size")

\* width 0 at a distance that recommends a width above 0
C17_Witness ==
    /\ printSizeIn = 0
    /\ scanDistanceFt > 0
    /\ readiness.metrics.recommendedPrintWidthIn > 0
    /\ readiness.metrics.sizeOk

\* C18 as stated: for a print width > 0, sizeOk is true and no size warning
\* is emitted exactly when print width >= distance x 12 / 10; otherwise the
\* size warning is emitted.
C18_SizeOkIffExact ==
    printSizeIn > 0 =>
        LET enough == 10 * printSizeIn >= 12 * scanDistanceFt
        IN /\ (readiness.metrics.sizeOk /\ ~HasWarning("size")) <=> enough
           /\ ~enough => HasWarning("size")

\* C18 amended: for a print width > 0, sizeOk is true and no size warning is
\* emitted exactly when print width >= distance x 12 / 10 rounded to 2
\* decimals (the recommended width of the metrics); otherwise sizeOk is
\* false and the size warning is emitted.  At 6 ft the recommended width is
\* 7.2 in and a width of 0.72 in gets the warning.
C18_SizeOkIffRounded ==
    /\ readiness.metrics.recommendedPrintWidthIn = RoundedRecommendedWidth
    /\ printSizeIn > 0 =>
         LET enough == printSizeIn >= RoundedRecommendedWidth
         IN /\ (readiness.metrics.sizeOk /\ ~HasWarning("size")) <=> enough
            /\ ~enough => (~readiness.metrics.sizeOk /\ HasWarning("size"))
    /\ (scanDistanceFt = 600 /\ printSizeIn = 72) =>
         /\ readiness.metrics.recommendedPrintWidthIn = 720
         /\ HasWarning("size")

\* a width that reaches the rounded recommended width and not the exact one
C18_Witness ==
    /\ printSizeIn > 0
    /\ printSizeIn = RoundedRecommendedWidth
    /\ 10 * printSizeIn < 12 * scanDistanceFt
    /\ readiness.metrics.sizeOk

\* C19: the maximum distance for the recommended width of a distance d lies
\* within 0.01 ft of d.
C19_RoundTrip ==
    LET width == readiness.metrics.recommendedPrintWidthIn
        back == readinessMemo(bgColor, fgColor, width,
                              scanDistanceFt).metrics.maxDistanceFt
    IN /\ back - scanDistanceFt <= 1 /\ scanDistanceFt - back <= 1
       /\ printSizeIn = width => readiness.metrics.maxDistanceFt = back

\* the recommended width of 6 ft is typed in as the print width
C19_Witness ==
    /\ scanDistanceFt = 600
    /\ printSizeIn = 720
    /\ readiness.metrics.maxDistanceFt = 600

\* C20: a colour string that is not a 3- or 6-digit hex code gives an outcome
\* that differs from the one of every valid colour.
C20_InvalidColorDistinguishable ==
    ~IsHexColor(fgColor) =>
        \A c \in PickerColors :
            readiness # readinessMemo(bgColor, c, printSizeIn, scanDistanceFt)

\* C21: the recommended export pixel size is max(256, round(print width x
\* 300)); it is never below 256 and does not decrease when the print width
\* increases.
C21_PixelSize ==
    /\ [](/\ readiness.metrics.recommendedPixelSize =
               (IF 3 * printSizeIn > 256 THEN 3 * printSizeIn ELSE 256)
          /\ readiness.metrics.recommendedPixelSize >= 256)
    /\ [][printSizeIn' >= printSizeIn =>
            readiness.metrics.recommendedPixelSize' >=
                readiness.metrics.recommendedPixelSize]_vars

\* a width above the floor (7.2 in, 2160 px) reached from one below it
C21_Witness ==
    /\ printSizeIn = 720
    /\ readiness.metrics.recommendedPixelSize = 2160

\* C28: meetsContrast is true if and only if the contrast percentage shown
\* is at least 40; the contrast warning never comes with a percentage of 40
\* or more.
C28_VerdictMatchesPercent ==
    /\ readiness.metrics.meetsContrast <=>
           readiness.metrics.contrastPercent >= 40
    /\ HasWarning("contrast") => readiness.metrics.contrastPercent < 40

\* C29: for every foreground colour and every background value, including
\* 'transparent', isInverted of the Scan Readiness card equals the
\* inverted-colours flag of ScanabilityIndicator.
C29_IndicatorsAgreeOnInversion ==
    readiness.metrics.isInverted <=>
        ScanabilityIndicator(fgColor, bgColor).isInverted

\* ---------------------------------------------------------------- C22
\* the mean of the four corners of a location, as a fraction
MeanOfCorners(l) ==
    [x |-> [num |-> l.topLeftCorner.x + l.topRightCorner.x
                    + l.bottomRightCorner.x + l.bottomLeftCorner.x, den |-> 4],
     y |-> [num |-> l.topLeftCorner.y + l.topRightCorner.y
                    + l.bottomRightCorner.y + l.bottomLeftCorner.y, den |-> 4]]

\* the overlay of a frame with a detected code: cleared, then the quad on
\* the four corners and the dot at their mean, both in one tint
DetectedOverlayIn(frame, tint) ==
    /\ Len(frame.overlay) = 3
    /\ frame.overlay[1].op = "clearRect"
    /\ frame.overlay[2].op = "path"
    /\ frame.overlay[2].corners =
         <<frame.location.topLeftCorner, frame.location.topRightCorner,
           frame.location.bottomRightCorner, frame.location.bottomLeftCorner>>
    /\ frame.overlay[2].strokeStyle = tint
    /\ frame.overlay[3].op = "arc"
    /\ frame.overlay[3].centerX = MeanOfCorners(frame.location).x
    /\ frame.overlay[3].centerY = MeanOfCorners(frame.location).y
    /\ frame.overlay[3].fillStyle = tint

\* the overlay of a frame without a code: cleared, then only the dashed
\* rectangle inset 15% from each edge
GuideOverlayIn(frame) ==
    /\ Len(frame.overlay) = 2
    /\ frame.overlay[1].op = "clearRect"
    /\ frame.overlay[2].op = "strokeRect"
    /\ frame.overlay[2].lineDash # <<>>
    /\ 100 * frame.overlay[2].x = 15 * VideoSize.width
    /\ 100 * frame.overlay[2].y = 15 * VideoSize.height
    /\ 100 * frame.overlay[2].width = 70 * VideoSize.width
    /\ 100 * frame.overlay[2].height = 70 * VideoSize.height

\* C22: the overlay of every processed frame agrees with the decode result
\* and with the status the frame sets: a detected code gives the quad on
\* its corners and the centre dot at their mean, green exactly when the
\* status becomes success and yellow exactly when it becomes error; no
\* detection gives only the dashed guide inset 15%; the overlay is cleared
\* before each draw, and the step that closes the view leaves it cleared.
C22_OverlayAgrees ==
    /\ [](/\ lastFrame.decode = "code" =>
               /\ statusQ = <<"success">> <=>
                    DetectedOverlayIn(lastFrame, "#34d399")
               /\ statusQ = <<"error">> <=>
                    DetectedOverlayIn(lastFrame, "#facc15")
               /\ statusQ \in { <<"success">>, <<"error">> }
          /\ lastFrame.decode = "null" => GuideOverlayIn(lastFrame))
    /\ [][(isOpen /\ ~isOpen' /\ mounted') =>
              lastFrame'.overlay = <<ClearRect>>]_vars

C22_Witness ==
    /\ lastFrame.decode = "code"
    /\ statusQ = <<"error">>
    /\ DetectedOverlayIn(lastFrame, "#facc15")

\* ---------------------------------------------------------------- C23
\* C23: with the view open, the camera granted and every frame decoding to
\* the trimmed expected data, status, once success, stays success: no step
\* takes it from success to another value.
C23_SuccessStays ==
    [][(isOpen /\ status = "success") => status' = "success"]_vars

\* ---------------------------------------------------------------- C24
\* C24: a frame whose decoded payload is exactly the data the rendered code
\* encodes (the expected data, untrimmed) sets status to success.
C24_SelfScanSucceeds ==
    (lastFrame.decode = "code" /\ scannedQ = <<expectedData>>
        /\ lastFrame.exp = expectedData)
      => statusQ = <<"success">>

\* ---------------------------------------------------------------- C30
\* C30: the render that opens the view shows status idle and no scanned
\* payload: nothing of a previous session is shown for the new one.
C30_OpensClean ==
    [][(~isOpen /\ isOpen') => (status' = "idle" /\ scannedData' = <<>>)]_vars

\* ---------------------------------------------------------------- C25
\* C25: in every settled state with auto-optimize enabled, the error
\* correction level is 'H' when a logo is set and 'M' otherwise.
C25_AutoLevel ==
    autoErrorCorrection =>
        currentConfig.errorCorrectionLevel
          = (IF currentConfig.image THEN "H" ELSE "M")

\* ---------------------------------------------------------------- C26
\* C26: the step that loads a saved code leaves, once the effects have
\* run, currentConfig.data equal to the data of that saved code.
C26_LoadRoundTrip ==
    [][onLoad =>
          \E i \in 1..Len(savedQRCodes) :
              /\ currentConfig'.id = savedQRCodes[i].id
              /\ currentConfig'.data = savedQRCodes[i].data]_vars

\* ---------------------------------------------------------------- C27
\* the ids of the entries of a library
IdsOf(codes) == {codes[i].id : i \in 1..Len(codes)}

\* codes without its i-th entry
WithoutIndex(codes, i) ==
    [j \in 1..(Len(codes) - 1) |-> IF j < i THEN codes[j] ELSE codes[j + 1]]

\* C27: no two entries of the library share an id; a save with the current
\* id in the library replaces that entry in place (same length, the other
\* entries unchanged), a save otherwise appends exactly one entry, and a
\* delete removes exactly the entry with the given id.
C27_LibraryIds ==
    /\ [](\A i, j \in 1..Len(savedQRCodes) :
              savedQRCodes[i].id = savedQRCodes[j].id => i = j)
    /\ [][handleSave =>
            IF currentConfig.id \in IdsOf(savedQRCodes)
            THEN /\ Len(savedQRCodes') = Len(savedQRCodes)
                 /\ \A i \in 1..Len(savedQRCodes) :
                      IF savedQRCodes[i].id = currentConfig.id
                      THEN /\ savedQRCodes'[i].id = currentConfig.id
                           /\ savedQRCodes'[i].data = currentConfig.data
                      ELSE savedQRCodes'[i] = savedQRCodes[i]
            ELSE /\ Len(savedQRCodes') = Len(savedQRCodes) + 1
                 /\ SubSeq(savedQRCodes', 1, Len(savedQRCodes)) = savedQRCodes
                 /\ savedQRCodes'[Len(savedQRCodes')].id = currentConfig.id
                 /\ savedQRCodes'[Len(savedQRCodes')].data
                      = currentConfig.data]_vars
    /\ [][handleDeleteQRCode =>
            \E i \in 1..Len(savedQRCodes) :
                savedQRCodes' = WithoutIndex(savedQRCodes, i)]_vars

C27_Witness ==
    /\ Len(savedQRCodes) = 2
    /\ savedQRCodes[1].id = 1 /\ savedQRCodes[1].contentType = "text"
    /\ savedQRCodes[2].id = 2 /\ savedQRCodes[2].contentType = "url"
    /\ currentConfig = ConfigOf(savedQRCodes[1])

====
